---- MODULE Spec2Model ----
(***************************************************************************)
(* A model of the retrieval core of llm_pkg: the documents table and the   *)
(* pgvector-backed PostgreSQLVectorStore (storage.py), the shared upload   *)
(* directory, the upload endpoint (chat_router.py) and the retrieve node   *)
(* of QAEngine (qa_engine.py).                                             *)
(*                                                                         *)
(* Conventions.  Python None and SQL NULL are the integer NULL (0): the    *)
(* serial primary keys of PostgreSQL start at 1, so 0 is never a real id,  *)
(* and `if self.conversation_id:` treats None and 0 alike.  A text is a    *)
(* sequence of atoms, one atom per chunk-sized window of characters; an    *)
(* atom remembers the user and conversation whose upload it came from, so  *)
(* that the flow of content between scopes can be observed.  File names    *)
(* and string ids are sequences of short strings, so that str(), int() and *)
(* path construction are computed rather than assumed.                     *)
(***************************************************************************)
EXTENDS Integers, Sequences, FiniteSets, TLC

VARIABLES documents, nextId, files, conversations, nextConvId, uploads,
          queries, vs, qa, messages, memory, sent, par, loader

vars == <<documents, nextId, files, conversations, nextConvId, uploads,
          queries, vs, qa, messages, memory, sent, par, loader>>

\* The messages table, the checkpoints and the last reply of send_message.
chatVars == <<messages, memory, sent>>

\* The queries in flight side by side, and the provider configuration.
sideVars == <<par, loader>>

(***************************************************************************)
(* Bounds of the model.                                                    *)
(***************************************************************************)
MaxStoreRows == 2
MaxBatch == 2
MaxK == 2
MaxRows == 12
MaxUploads == 2
MaxLongUploads == 1
MaxQueries == 1

NULL == 0

Users == {1, 2}
\* The ids the conversations table hands out in the model.
ConvIds == {1, 2}

Min(a, b) == IF a <= b THEN a ELSE b
Abs(a) == IF a < 0 THEN 0 - a ELSE a
Range(s) == {s[i] : i \in 1..Len(s)}

(***************************************************************************)
(* Strings.                                                                *)
(***************************************************************************)
Digit == <<"1", "2", "3", "4", "5", "6", "7", "8", "9">>

DigitChar(d) == IF d = 0 THEN "0" ELSE Digit[d]

IsDigit(ch) == ch = "0" \/ \E d \in 1..9 : Digit[d] = ch

DigitValue(ch) == IF ch = "0" THEN 0 ELSE CHOOSE d \in 1..9 : Digit[d] = ch

\* str(n) for n >= 0: the decimal digits, most significant first.
RECURSIVE Str(_)
Str(n) == IF n < 10 THEN <<DigitChar(n)>>
          ELSE Append(Str(n \div 10), DigitChar(n % 10))

\* int(s) succeeds exactly on a non-empty string of decimal digits here (the
\* sign, blanks and underscores Python also accepts are not drawn as inputs).
IntParses(s) == Len(s) > 0 /\ \A i \in 1..Len(s) : IsDigit(s[i])

RECURSIVE IntOf(_)
IntOf(s) == IF Len(s) = 0 THEN 0
            ELSE 10 * IntOf(SubSeq(s, 1, Len(s) - 1)) + DigitValue(s[Len(s)])

(***************************************************************************)
(* Texts and the embedder (an external provider: a fixed function from a   *)
(* text to a point, the cosine distance being the distance of points).     *)
(***************************************************************************)
Atom(u, c, w) == [owner |-> u, conv |-> c, w |-> w]

EmbedText(t) == IF Len(t) = 0 THEN 1 ELSE t[1].w

Distance(e, q) == Abs(e - q)

\* Questions, by the point the embedder maps them to.
Questions == {1}

embed_query(q) == q

embed_documents(texts) == [i \in 1..Len(texts) |-> EmbedText(texts[i])]

(***************************************************************************)
(* langchain Document: page_content and metadata.  An absent metadata key  *)
(* is NULL (ids) or the empty sequence (source, similarity).               *)
(***************************************************************************)
Document(content, source, id, conv, sim) ==
    [page_content |-> content,
     metadata |-> [source |-> source, id |-> id, conversation_id |-> conv,
                   similarity |-> sim]]

\* DBDocument: a row of the documents table.
DBDocument(id, filename, content, embedding, user, conv) ==
    [id |-> id, filename |-> filename, content |-> content,
     embedding |-> embedding, user_id |-> user, conversation_id |-> conv]

IdsOf(rows) == {r.id : r \in rows}

\* The rows of a set in ascending id order.
RECURSIVE ById(_)
ById(rows) ==
    IF rows = {} THEN <<>>
    ELSE LET m == CHOOSE r \in rows : \A o \in rows : r.id <= o.id
         IN  <<m>> \o ById(rows \ {m})

(***************************************************************************)
(* PostgreSQLVectorStore                                                   *)
(***************************************************************************)
VectorStore(user, conv) == [user_id |-> user, conversation_id |-> conv]

ChunkName(i) == <<"chunk_">> \o Str(i)

\* metadata.get("source", f"chunk_{i}") with metadatas[i] if metadatas else {}
\* (i counts from 0 in the code, from 1 here).
SourceOf(metadatas, i) ==
    IF Len(metadatas) = 0 THEN ChunkName(i - 1)
    ELSE IF Len(metadatas[i].source) = 0 THEN ChunkName(i - 1)
    ELSE metadatas[i].source

NoFailure == [kind |-> "none", at |-> 0]

\* The rows add_texts inserts for texts 1..n, ids counting up from `first`.
NewRows(store, texts, metadatas, n, first) ==
    {DBDocument(first + i - 1, SourceOf(metadatas, i), texts[i],
                embed_documents(texts)[i], store.user_id,
                store.conversation_id) : i \in 1..n}

\* add_texts: embed the whole batch first (a failure stores nothing), then
\* insert and COMMIT row by row; a store failure at text failure.at leaves the
\* rows before it committed.
add_texts(rows, first, store, texts, metadatas, failure) ==
    IF failure.kind = "embed"
    THEN [documents |-> rows, nextId |-> first, ids |-> <<>>, raised |-> TRUE]
    ELSE IF failure.kind = "commit"
    THEN [documents |-> rows \cup NewRows(store, texts, metadatas, failure.at - 1, first),
          nextId |-> first + failure.at - 1,
          ids |-> <<>>,
          raised |-> TRUE]
    ELSE [documents |-> rows \cup NewRows(store, texts, metadatas, Len(texts), first),
          nextId |-> first + Len(texts),
          ids |-> [i \in 1..Len(texts) |-> Str(first + i - 1)],
          raised |-> FALSE]

\* A WHERE clause that forgets the conversation.
ScopeMatchUserOnly(store, r) ==
    /\ r.embedding # NULL
    /\ store.user_id # NULL /\ r.user_id = store.user_id

\* The WHERE clause of similarity_search.  `user_id = :user_id` is false for a
\* NULL parameter and for a NULL column alike.
ScopeMatch(store, r) ==
    /\ r.embedding # NULL
    /\ store.user_id # NULL /\ r.user_id = store.user_id
    /\ IF store.conversation_id # NULL
       THEN r.conversation_id = store.conversation_id
       ELSE r.conversation_id = NULL

Matching(rows, store) == {r \in rows : ScopeMatch(store, r)}

\* ORDER BY embedding <=> :q LIMIT :k.  Rows at equal distance come in an
\* order the statement does not fix: every order is a possible result.
RECURSIVE TopK(_, _, _)
TopK(S, q, k) ==
    IF k <= 0 \/ S = {} THEN {<<>>}
    ELSE LET near == {r \in S : \A o \in S :
                        Distance(r.embedding, q) <= Distance(o.embedding, q)}
         IN  UNION {{<<r>> \o t : t \in TopK(S \ {r}, q, k - 1)} : r \in near}

RowDocument(r, q) ==
    Document(r.content, r.filename, r.id, NULL, <<1 - Distance(r.embedding, q)>>)

\* similarity_search: the set of result lists the call may return.
similarity_search(rows, store, query, k) ==
    {[i \in 1..Len(t) |-> RowDocument(t[i], embed_query(query))] :
        t \in TopK(Matching(rows, store), embed_query(query), k)}

\* delete: `if not ids: return`, then int(id) for every id (ValueError on a
\* string that is no number) and one DELETE ... WHERE id IN (...).
delete(rows, present, ids) ==
    IF ~present \/ Len(ids) = 0
    THEN [documents |-> rows, raised |-> FALSE]
    ELSE IF \E i \in 1..Len(ids) : ~IntParses(ids[i])
    THEN [documents |-> rows, raised |-> TRUE]
    ELSE [documents |-> {r \in rows :
                           ~(\E i \in 1..Len(ids) : IntOf(ids[i]) = r.id)},
          raised |-> FALSE]

(***************************************************************************)
(* QAEngine: _load_documents and the retrieve node                         *)
(***************************************************************************)
RetrieveK == 10

\* What files[name] holds while the directory has no such file.
NoFile == <<Atom(NULL, NULL, 0 - 1)>>

FileNames == {<<"a.txt">>, <<"b.txt">>}

\* sorted(STORAGE_DIR.glob("*"))
FileOrder == <<(<<"a.txt">>), (<<"b.txt">>)>>

\* str(STORAGE_DIR / name)
PathOf(name) == <<"uploads/">> \o name

\* "\n\n" between the joined chunk texts.
Separator == [owner |-> NULL, conv |-> NULL, w |-> 0]

RECURSIVE Join(_)
Join(texts) ==
    IF Len(texts) = 0 THEN <<>>
    ELSE IF Len(texts) = 1 THEN texts[1]
    ELSE texts[1] \o <<Separator>> \o Join(Tail(texts))

QAEngine(user, conv) == [user_id |-> user, conversation_id |-> conv]

\* A document query that forgets the conversation.
DbDocsOfUser(rows, engine, document_name) ==
    {r \in rows :
        /\ r.user_id = engine.user_id
        /\ Len(document_name) > 0 => r.filename = document_name}

\* The rows the ORM query of _load_documents selects: user_id == self.user_id
\* (IS NULL for None), the conversation or IS NULL, and the file name if one is
\* given.
DbDocs(rows, engine, document_name) ==
    {r \in rows :
        /\ r.user_id = engine.user_id
        /\ IF engine.conversation_id # NULL
           THEN r.conversation_id = engine.conversation_id
           ELSE r.conversation_id = NULL
        /\ Len(document_name) > 0 => r.filename = document_name}

RowsToDocuments(seq) ==
    [i \in 1..Len(seq) |->
        Document(seq[i].content, seq[i].filename, seq[i].id,
                 seq[i].conversation_id, <<>>)]

\* The files of the upload directory, read in sorted order.
RECURSIVE StorageDocuments(_, _, _)
StorageDocuments(fls, document_name, order) ==
    IF Len(order) = 0 THEN <<>>
    ELSE LET name == Head(order)
             rest == StorageDocuments(fls, document_name, Tail(order))
         IN  IF fls[name] = NoFile THEN rest
             ELSE IF Len(document_name) > 0 /\ name # document_name THEN rest
             ELSE <<Document(fls[name], PathOf(name), NULL, NULL, <<>>)>> \o rest

\* _load_documents: the rows of the scope (in id order, the order of an
\* append-only heap); when there are none, every file of the upload directory.
load_documents(rows, fls, engine, document_name) ==
    LET fromDb == RowsToDocuments(ById(DbDocs(rows, engine, document_name)))
    IN  IF Len(fromDb) > 0 THEN fromDb
        ELSE StorageDocuments(fls, document_name, FileOrder)

\* RecursiveCharacterTextSplitter.split_documents: one chunk per window of a
\* document's text, each with the document's metadata; none for an empty text.
RECURSIVE split_documents(_)
split_documents(docs) ==
    IF Len(docs) = 0 THEN <<>>
    ELSE [i \in 1..Len(Head(docs).page_content) |->
             [Head(docs) EXCEPT !.page_content = <<@[i]>>]]
         \o split_documents(Tail(docs))

PageContents(docs) == [i \in 1..Len(docs) |-> docs[i].page_content]

Metadatas(docs) == [i \in 1..Len(docs) |-> docs[i].metadata]

\* A search that asks for ten results whatever the chunks.
TenResults(chunks) == RetrieveK

\* k_value = min(10, len(chunks)) of the try block.
k_value(chunks) ==
    Min(RetrieveK, Len(chunks))

\* The try block of _retrieve_node: OpenAIEmbeddings(), add_texts, then
\* similarity_search with k = min(10, len(chunks)).  Each outcome is the
\* table afterwards, whether the block raised, and the documents it found.
VectorSearch(rows, first, engine, chunks, question, failure) ==
    IF failure.kind = "ctor"
    THEN {[documents |-> rows, nextId |-> first, raised |-> TRUE, relevant |-> <<>>]}
    ELSE LET store == VectorStore(engine.user_id, engine.conversation_id)
             added == add_texts(rows, first, store, PageContents(chunks),
                                Metadatas(chunks), failure)
         IN  IF added.raised \/ failure.kind = "search"
             THEN {[documents |-> added.documents, nextId |-> added.nextId,
                    raised |-> TRUE, relevant |-> <<>>]}
             ELSE {[documents |-> added.documents, nextId |-> added.nextId,
                    raised |-> FALSE, relevant |-> res] :
                      res \in similarity_search(added.documents, store, question,
                                                k_value(chunks))}

\* A fallback that takes every chunk.
FallbackAllChunks(chunks) == chunks

\* chunks[:k_value] with k_value = min(10, len(chunks))
FallbackChunks(chunks) == SubSeq(chunks, 1, Min(RetrieveK, Len(chunks)))

\* A retrieve node without the except clause.
PropagateFailure(v, chunks) ==
    [raised |-> v.raised, relevant |-> v.relevant]

\* except Exception: fall back to the first chunks.
AbsorbFailure(v, chunks) ==
    [raised |-> FALSE,
     relevant |-> IF v.raised THEN FallbackChunks(chunks) ELSE v.relevant]

(***************************************************************************)
(* The language model (an external provider: any reply, or an exception)   *)
(* and the generate node.  A reply is a sequence of words; a word of white *)
(* space is " ".                                                           *)
(***************************************************************************)
\* str.lower() on the words the model's replies are made of.
LowerWord(word) ==
    IF word = "Please" THEN "please"
    ELSE IF word = "SEND" THEN "send"
    ELSE word

lower(text) == [i \in 1..Len(text) |-> LowerWord(text[i])]

IsSpace(word) == word = " "

\* str.strip(): the text without the white space at its ends.
RECURSIVE strip(_)
strip(text) ==
    IF Len(text) = 0 THEN text
    ELSE IF IsSpace(Head(text)) THEN strip(Tail(text))
    ELSE IF IsSpace(text[Len(text)]) THEN strip(SubSeq(text, 1, Len(text) - 1))
    ELSE text

\* `sig in text`, word by word.
Contains(text, sig) ==
    \E k \in 0..(Len(text) - Len(sig)) : SubSeq(text, k + 1, k + Len(sig)) = sig

ask_for_upload_signals ==
    <<(<<"please", "provide">>), (<<"please", "paste">>),
      (<<"i", "need", "the", "text">>), (<<"provide", "the", "content">>),
      (<<"upload", "the">>), (<<"send", "the">>), (<<"paste", "the">>),
      (<<"can't", "access", "files">>),
      (<<"i", "don't", "have", "access", "to">>)>>

\* any(sig in answer_lower for sig in ask_for_upload_signals)
AsksForContent(answer) ==
    \E i \in 1..Len(ask_for_upload_signals) :
        Contains(lower(answer), ask_for_upload_signals[i])

\* The replies the model is made to give: a plain answer, two that ask for the
\* file (in mixed case), an empty one and one of white space only.
Replies ==
    {<<"ok">>, <<"Please", "provide", "it">>, <<"SEND", "the", "file">>,
     <<>>, <<" ">>}

\* An exception, with its message as the content.
Raised(error) == [raised |-> TRUE, content |-> <<error>>]

Errors == {"timeout", "quota"}

\* get_provider_config finding no configuration for the provider.
NoProviderError == <<"no provider">>

Returned(reply) == [raised |-> FALSE, content |-> reply]

\* What one llm.invoke may do.
LLMOutcomes ==
    {Raised(error) : error \in Errors} \cup {Returned(reply) : reply \in Replies}

\* A prompt, by its template and what is put into it.
Prompt(kind, question, context, sources, history) ==
    [kind |-> kind, question |-> question, context |-> context,
     sources |-> sources, history |-> history]

AgentPrompt(question) == Prompt("agent", question, <<>>, {}, <<>>)

RagPrompt(question, context, docs) ==
    Prompt("rag", question, context,
           {docs[i].metadata.source : i \in 1..Len(docs)}, <<>>)

\* The strict general-knowledge re-prompt.
GeneralPrompt(question) == Prompt("general", question, <<>>, {}, <<>>)

\* query_simple hands the model the question itself.
QuestionPrompt(question) == Prompt("question", question, <<>>, {}, <<>>)

HistoryWindow == 6

\* chat_history[-6:]
LastMessages(chat_history) ==
    SubSeq(chat_history, Len(chat_history) - Min(HistoryWindow, Len(chat_history)) + 1,
           Len(chat_history))

\* "Previous conversation:" and the last messages, when there are any.
WithHistory(prompt, chat_history) ==
    IF Len(chat_history) = 0 THEN prompt
    ELSE [prompt EXCEPT !.history = LastMessages(chat_history)]

\* A generate node whose re-prompt is itself checked and re-prompted.
RepromptTwice(answer, question, second) ==
    IF ~AsksForContent(answer) THEN [answer |-> answer, calls |-> <<>>]
    ELSE IF second.raised \/ strip(second.content) = <<>>
    THEN [answer |-> answer, calls |-> <<GeneralPrompt(question)>>]
    ELSE IF AsksForContent(second.content)
    THEN [answer |-> second.content,
          calls |-> <<GeneralPrompt(question), GeneralPrompt(question)>>]
    ELSE [answer |-> second.content, calls |-> <<GeneralPrompt(question)>>]

\* A re-prompt whose reply replaces the answer whatever it is.
RepromptAlwaysReplaces(answer, question, second) ==
    IF ~AsksForContent(answer) THEN [answer |-> answer, calls |-> <<>>]
    ELSE [answer |-> IF second.raised THEN answer ELSE second.content,
          calls |-> <<GeneralPrompt(question)>>]

\* The re-prompt heuristic: when the answer asks for the content, one more
\* call, whose reply replaces the answer unless it raised or is blank.
Reprompt(answer, question, second) ==
    IF ~AsksForContent(answer) THEN [answer |-> answer, calls |-> <<>>]
    ELSE [answer |-> IF ~second.raised /\ strip(second.content) # <<>>
                     THEN second.content ELSE answer,
          calls |-> <<GeneralPrompt(question)>>]

\* A metadata that counts the chunks of the call instead of its sources.
MetadataOfChunks(state) ==
    [num_sources |-> Len(state.chunks),
     context_length |-> Len(state.context),
     mode |-> IF state.use_agent_mode THEN "agent" ELSE "rag"]

\* state["metadata"]: len(state.get("documents", [])), len(context) and the
\* mode.
Metadata(state) ==
    [num_sources |-> Len(state.documents),
     context_length |-> Len(state.context),
     mode |-> IF state.use_agent_mode THEN "agent" ELSE "rag"]

\* "metadata": {} of the initial state.
NoMetadata == [num_sources |-> 0, context_length |-> 0, mode |-> "none"]

\* _generate_node: build the model, the prompt of the mode, one call, the
\* re-prompt heuristic, then answer and metadata.
generate_node(state, built, first, second) ==
    LET base == IF state.use_agent_mode THEN AgentPrompt(state.question)
                ELSE RagPrompt(state.question, state.context, state.documents)
        prompt == WithHistory(base, state.chat_history)
        again == Reprompt(first.content, state.question, second)
    IN  IF ~built
        THEN [raised |-> TRUE, error |-> NoProviderError, answer |-> <<>>,
              calls |-> <<>>, mode |-> "none", metadata |-> NoMetadata]
        ELSE IF first.raised
        THEN [raised |-> TRUE, error |-> first.content, answer |-> <<>>,
              calls |-> <<prompt>>, mode |-> "none", metadata |-> NoMetadata]
        ELSE [raised |-> FALSE, error |-> <<>>, answer |-> again.answer,
              calls |-> <<prompt>> \o again.calls,
              mode |-> Metadata(state).mode, metadata |-> Metadata(state)]

\* query_simple: build the model and hand it the question.
query_simple(question, built, first) ==
    IF ~built
    THEN [raised |-> TRUE, error |-> NoProviderError, answer |-> <<>>, calls |-> <<>>]
    ELSE IF first.raised
    THEN [raised |-> TRUE, error |-> first.content, answer |-> <<>>,
          calls |-> <<QuestionPrompt(question)>>]
    ELSE [raised |-> FALSE, error |-> <<>>, answer |-> first.content,
          calls |-> <<QuestionPrompt(question)>>]

\* A graph whose retrieve node ends the run when it has set agent mode.
AfterNodeByMode(node, use_agent_mode) ==
    IF node = "retrieve" /\ ~use_agent_mode THEN "retrieved" ELSE "done"

\* add_edge("retrieve", "generate") and add_edge("generate", END): where the
\* run stands when a node has returned ("retrieved": about to run generate),
\* whatever the mode.
AfterNode(node, use_agent_mode) ==
    IF node = "retrieve" THEN "retrieved" ELSE "done"

\* The fields of the workflow state, the engine that runs the query, and what
\* the retrieve node saw (loaded, chunks, the rows of the scope: scope_ids all
\* of them, named_ids those the name filter kept); then the thread id the
\* query runs under and the one it was given, the prompts sent to the model,
\* the nodes that have run, and whether the engine's MemorySaver held a
\* checkpoint of the thread (checkpoint), and any engine had written one
\* (earlier), when the query began.
IdleQuery ==
    [pc |-> "idle", user_id |-> NULL, conversation_id |-> NULL,
     question |-> NULL, document_name |-> <<>>, loaded |-> <<>>,
     chunks |-> <<>>, documents |-> <<>>, context |-> <<>>,
     use_agent_mode |-> FALSE, failure |-> NoFailure, scope_ids |-> {},
     named_ids |-> {}, indexed |-> {}, thread_id |-> <<>>, supplied |-> <<>>,
     chat_history |-> <<>>, answer |-> <<>>, mode |-> "none", error |-> <<>>,
     calls |-> <<>>, outcomes |-> <<>>, trace |-> <<>>, checkpoint |-> FALSE,
     earlier |-> FALSE, metadata |-> NoMetadata]

(***************************************************************************)
(* LLMLoader: the provider table read from the TOML file.  Names and values *)
(* are strings; "" is a key that is absent (or empty: the code tests keys   *)
(* by truth) and a name that is None or empty.                              *)
(***************************************************************************)
ProviderConfig(provider, model, meta) ==
    [provider |-> provider, model |-> model, meta |-> meta]

\* self.default = None
NoDefault == ProviderConfig("", "", "")

\* self.providers = {}
NoProviders == [name \in {} |-> NoDefault]

\* A table of the file: its name and its keys (deployment_id stands for the
\* keys other than provider and model).
Section(name, provider, model, deployment_id) ==
    [name |-> name, provider |-> provider, model |-> model,
     deployment_id |-> deployment_id]

\* The [default] table: provider_name, provider, model; all "" when the file
\* has no such table or an empty one.
DefaultSection(provider_name, provider, model) ==
    [provider_name |-> provider_name, provider |-> provider, model |-> model]

\* `if name in {"default", "metadata", "logging"}: continue`
ReservedSections == {"default", "metadata", "logging"}

\* ProviderConfig(provider=provider, model=model, meta=meta) of a section, with
\* model = section.get("model", section.get("deployment_id") or "gpt-4o").
ProviderOf(section) ==
    ProviderConfig(section.provider,
                   IF section.model # "" THEN section.model
                   ELSE IF section.deployment_id # "" THEN section.deployment_id
                   ELSE "gpt-4o",
                   section.deployment_id)

\* The loop over raw.items(): the table filled so far, and whether a section
\* without `provider` stopped it (ValueError).
RECURSIVE LoadSections(_, _)
LoadSections(sections, providers) ==
    IF Len(sections) = 0 THEN [providers |-> providers, raised |-> FALSE]
    ELSE LET section == Head(sections)
         IN  IF section.name \in ReservedSections
             THEN LoadSections(Tail(sections), providers)
             ELSE IF section.provider = ""
             THEN [providers |-> providers, raised |-> TRUE]
             ELSE LoadSections(Tail(sections),
                     [name \in DOMAIN providers \cup {section.name} |->
                         IF name = section.name THEN ProviderOf(section)
                         ELSE providers[name]])

\* A loader that prefers the section openai to the default section's pair.
DefaultOpenAIFirst(default_section, providers) ==
    IF default_section.provider_name # ""
          /\ default_section.provider_name \in DOMAIN providers
    THEN providers[default_section.provider_name]
    ELSE IF "openai" \in DOMAIN providers THEN providers["openai"]
    ELSE IF default_section.provider # "" /\ default_section.model # ""
    THEN ProviderConfig(default_section.provider, default_section.model, "")
    ELSE NoDefault

\* The default after the loop: default.provider_name when it names a loaded
\* provider, else the pair of the default section, else providers["openai"].
DefaultOf(default_section, providers) ==
    IF default_section.provider_name # ""
          /\ default_section.provider_name \in DOMAIN providers
    THEN providers[default_section.provider_name]
    ELSE IF default_section.provider # "" /\ default_section.model # ""
    THEN ProviderConfig(default_section.provider, default_section.model, "")
    ELSE IF "openai" \in DOMAIN providers THEN providers["openai"]
    ELSE NoDefault

\* reload: a missing file empties the loader; a file that cannot be read or
\* parsed raises before anything is touched (`raise RuntimeError(...)(e)`
\* calls the exception, a TypeError); a section without `provider` raises
\* ValueError after providers.clear() and the sections before it, the
\* default untouched.
reload(self, file) ==
    IF ~file.exists
    THEN [providers |-> NoProviders, default |-> NoDefault, raised |-> FALSE,
          error |-> ""]
    ELSE IF ~file.parses
    THEN [providers |-> self.providers, default |-> self.default,
          raised |-> TRUE, error |-> "TypeError"]
    ELSE LET loaded == LoadSections(file.sections, NoProviders)
         IN  IF loaded.raised
             THEN [providers |-> loaded.providers, default |-> self.default,
                   raised |-> TRUE, error |-> "ValueError"]
             ELSE [providers |-> loaded.providers,
                   default |-> DefaultOf(file.default, loaded.providers),
                   raised |-> FALSE, error |-> ""]

\* get_provider_config: `if name:` the provider of that name or KeyError;
\* else `if self.default:` the default, or ValueError.
get_provider_config(self, name) ==
    IF name # ""
    THEN IF name \notin DOMAIN self.providers
         THEN [raised |-> TRUE, error |-> "KeyError", result |-> NoDefault]
         ELSE [raised |-> FALSE, error |-> "", result |-> self.providers[name]]
    ELSE IF self.default # NoDefault
    THEN [raised |-> FALSE, error |-> "", result |-> self.default]
    ELSE [raised |-> TRUE, error |-> "ValueError", result |-> NoDefault]

\* The file the loader has not found.
MissingFile ==
    [exists |-> FALSE, parses |-> FALSE, sections |-> <<>>,
     default |-> DefaultSection("", "", "")]

\* The last call of the loader.
NoLoaderCall ==
    [op |-> "none", name |-> "", file |-> MissingFile, raised |-> FALSE,
     error |-> "", result |-> NoDefault]

(***************************************************************************)
(* The state after construction: an empty database, an empty upload        *)
(* directory, no call made yet.                                            *)
(***************************************************************************)
\* str(uuid.uuid4()): an identifier no earlier call returned.
uuid4(n) == <<"uuid-">> \o Str(n)

\* MemorySaver: the thread ids with a checkpoint in the engine the process
\* keeps (app.py, the command line); every other engine is built for one
\* request and starts with none.  uuids counts the identifiers handed out;
\* written collects the threads any engine has checkpointed.
NoCheckpoints == [uuids |-> 0, saver |-> {}, written |-> {}]

\* The last reply of send_message or query_simple, and what the call did:
\* the errors it caught, the prompts it sent to the model and what the model
\* did with each, whether build_model worked in query and in query_simple
\* (built), how often query_simple was called (retries), the messages the
\* conversation held when the call came (prior), and the workflow state the
\* query ended with (state).
NoReply ==
    [op |-> "none", status |-> 0, conversation_id |-> NULL, question |-> NULL,
     answer |-> <<>>, sources |-> <<>>, raised |-> FALSE, errors |-> <<>>,
     calls |-> <<>>, outcomes |-> <<>>, built |-> <<>>, retries |-> 0,
     prior |-> <<>>, state |-> IdleQuery]

\* No query running beside another: the workflow states of the two, the
\* table as it was when query a began, and the queries b has begun.
NoRace ==
    [a |-> IdleQuery, b |-> IdleQuery,
     start |-> [documents |-> {}, nextId |-> 1], runs |-> 0]

\* LLMLoader made where there is no configuration file: no providers, no
\* default.  source is the file of the last reload, loaded whether that
\* reload returned.
EmptyLoader ==
    [providers |-> NoProviders, default |-> NoDefault, source |-> MissingFile,
     loaded |-> TRUE, call |-> NoLoaderCall]

NoCall ==
    [op |-> "none", store |-> VectorStore(NULL, NULL), query |-> NULL, k |-> 0,
     raised |-> FALSE, result |-> <<>>, ids |-> <<>>, first |-> 0, n |-> 0,
     before |-> {}, present |-> FALSE]

\* sent and par are written by the chat endpoint and by queries side by side
\* only: here they hold the marker of no reply and of no pair.
Init ==
    /\ documents = {}
    /\ nextId = 1
    /\ files = [f \in FileNames |-> NoFile]
    /\ conversations = {}
    /\ nextConvId = 1
    /\ uploads = 0
    /\ queries = 0
    /\ vs = NoCall
    /\ qa = IdleQuery
    /\ messages = <<>>
    /\ memory = NoCheckpoints
    /\ sent = [op |-> "none"]
    /\ par = [runs |-> 0]
    /\ loader = EmptyLoader

(***************************************************************************)
(* Calls of the vector store by a client that holds a store of any scope.  *)
(***************************************************************************)
StoreScopes ==
    {VectorStore(1, 1), VectorStore(1, 2), VectorStore(1, NULL),
     VectorStore(2, 1), VectorStore(NULL, NULL)}

StoreTexts == {<<Atom(NULL, NULL, 1)>>, <<Atom(NULL, NULL, 2)>>}

RECURSIVE SeqsUpTo(_, _)
SeqsUpTo(S, n) ==
    IF n = 0 THEN {<<>>}
    ELSE LET shorter == SeqsUpTo(S, n - 1)
         IN  shorter \cup {Append(t, x) : t \in shorter, x \in S}

\* The texts of a batch of n at which the store is made to fail: the first
\* (nothing committed before it), the second and the last.
FailurePoints(n) == {j \in {1, 2, n} : 1 <= j /\ j <= n}

\* The ways a batch of n texts can fail: the embedder, or the store at one text.
Failures(n) ==
    {NoFailure, [kind |-> "embed", at |-> 0]}
        \cup {[kind |-> "commit", at |-> j] : j \in FailurePoints(n)}

StoreAddTexts ==
    \E store \in StoreScopes, texts \in SeqsUpTo(StoreTexts, MaxBatch) :
      \E failure \in Failures(Len(texts)) :
        LET r == add_texts(documents, nextId, store, texts, <<>>, failure)
        IN  /\ nextId - 1 + Len(texts) <= MaxStoreRows
            /\ documents' = r.documents
            /\ nextId' = r.nextId
            /\ vs' = [NoCall EXCEPT !.op = "add_texts", !.store = store,
                                    !.raised = r.raised, !.ids = r.ids,
                                    !.first = nextId, !.n = Len(texts)]
            /\ UNCHANGED <<files, conversations, nextConvId, uploads, queries, qa,
                           chatVars, sideVars>>

StoreSimilaritySearch ==
    \/ /\ documents # {}
       /\ vs' = [NoCall EXCEPT !.op = "similarity_search", !.raised = TRUE]
       /\ UNCHANGED <<documents, nextId, files, conversations, nextConvId,
                      uploads, queries, qa, chatVars, sideVars>>
    \/ \E store \in StoreScopes, q \in Questions, k \in 0..MaxK :
         \E res \in similarity_search(documents, store, q, k) :
           /\ documents # {}
           /\ vs' = [NoCall EXCEPT !.op = "similarity_search", !.store = store,
                                   !.query = q, !.k = k, !.result = res]
           /\ UNCHANGED <<documents, nextId, files, conversations, nextConvId,
                          uploads, queries, qa, chatVars, sideVars>>

\* The id strings a caller may pass: ids the store handed out, one it never
\* will within the bound, and a string that is no number.
IdStrings == {Str(i) : i \in 1..(MaxStoreRows + 1)} \cup {<<"x">>}

\* Lists of at most two ids: none, one, two numbers in rising order (the
\* DELETE ... WHERE id IN (...) does not depend on the order of the list), and
\* a string that is no number after and before a number.
IdLists ==
    {<<>>} \cup {<<a>> : a \in IdStrings}
        \cup UNION {{<<Str(i), Str(j)>> : j \in (i + 1)..(MaxStoreRows + 1)} :
                       i \in 1..MaxStoreRows}
        \cup {<<Str(1), <<"x">>>>, <<<<"x">>, Str(1)>>}

StoreDelete ==
    \E present \in BOOLEAN, ids \in IdLists :
        LET r == delete(documents, present, ids)
        IN  /\ documents # {}
            /\ present \/ ids = <<>>
            /\ documents' = r.documents
            /\ vs' = [NoCall EXCEPT !.op = "delete", !.raised = r.raised,
                                    !.ids = ids, !.before = documents,
                                    !.present = present]
            /\ UNCHANGED <<nextId, files, conversations, nextConvId, uploads,
                           queries, qa, chatVars, sideVars>>

NextStore == StoreAddTexts \/ StoreSimilaritySearch \/ StoreDelete

SpecStore == Init /\ [][NextStore]_vars

\* delete called on the store of a scope: the scope is that of the object the
\* method is called on, and the method does not read it.
DeleteOnStore ==
    \E store \in StoreScopes, ids \in IdLists :
        LET r == delete(documents, TRUE, ids)
        IN  /\ documents # {}
            /\ documents' = r.documents
            /\ vs' = [NoCall EXCEPT !.op = "delete", !.store = store,
                                    !.raised = r.raised, !.ids = ids,
                                    !.before = documents, !.present = TRUE]
            /\ UNCHANGED <<nextId, files, conversations, nextConvId, uploads,
                           queries, qa, chatVars, sideVars>>

NextDelete == StoreAddTexts \/ DeleteOnStore

SpecDelete == Init /\ [][NextDelete]_vars

(***************************************************************************)
(* The chat endpoints and a query.                                         *)
(***************************************************************************)
DocLens == {0, 2}

\* A text of more windows than the retrieve node asks the store for.
LongLens == {RetrieveK + 1}

\* The text of an upload: n windows, each marked with the uploader's scope.
DocText(user, conv, n) == [i \in 1..n |-> Atom(user, conv, i)]

\* A row of the conversations table; thread_id is <<>> when the column is
\* NULL.
Conversation(id, user, thread_id) ==
    [id |-> id, user_id |-> user, thread_id |-> thread_id]

\* POST /chat/conversations: the row is made without a thread id.
CreateConversation ==
    \E user \in Users :
        /\ nextConvId \in ConvIds
        /\ conversations' = conversations \cup {Conversation(nextConvId, user, <<>>)}
        /\ nextConvId' = nextConvId + 1
        /\ UNCHANGED <<documents, nextId, files, uploads, queries, vs, qa,
                       chatVars, sideVars>>

\* POST /chat/upload-document by the owner of the conversation: the file is
\* written to the shared directory first; the row follows unless processing
\* the file raises.
Upload(lens, limit) ==
    \E conv \in conversations, name \in FileNames, n \in lens, processed \in BOOLEAN :
        LET content == DocText(conv.user_id, conv.id, n)
        IN  /\ uploads < limit
            /\ nextId <= MaxRows
            /\ files' = [files EXCEPT ![name] = content]
            /\ uploads' = uploads + 1
            /\ IF processed
               THEN /\ documents' = documents \cup
                         {DBDocument(nextId, name, content, NULL, conv.user_id, conv.id)}
                    /\ nextId' = nextId + 1
               ELSE UNCHANGED <<documents, nextId>>
            /\ UNCHANGED <<conversations, nextConvId, queries, vs, qa,
                           chatVars, sideVars>>

UploadDocument == Upload(DocLens, MaxUploads)

UploadLongDocument == Upload(LongLens, MaxLongUploads)

\* The engines the program constructs: send_message (the owner and the
\* conversation), get_qa_engine (a user, no conversation), the command line
\* and app.py (neither).
EngineScopes ==
    {QAEngine(c.user_id, c.id) : c \in conversations}
        \cup {QAEngine(u, NULL) : u \in Users}
        \cup {QAEngine(NULL, NULL)}

\* The engine the process keeps for its whole life.
SharedEngine == [user_id |-> NULL, conversation_id |-> NULL]

\* A query that always makes up its own thread id.
ThreadAlwaysFresh(supplied, uuids) == uuid4(uuids + 1)

\* `if not thread_id: thread_id = str(uuid.uuid4())`
ThreadOf(supplied, uuids) ==
    IF Len(supplied) = 0 THEN uuid4(uuids + 1) ELSE supplied

\* The checkpoints after a query under thread_id has begun on the engine.
Checkpointed(mem, engine, supplied) ==
    LET thread_id == ThreadOf(supplied, mem.uuids)
    IN  [uuids |-> IF Len(supplied) = 0 THEN mem.uuids + 1 ELSE mem.uuids,
         saver |-> IF engine = SharedEngine THEN mem.saver \cup {thread_id}
                   ELSE mem.saver,
         written |-> mem.written \cup {thread_id}]

\* query(): the thread id and the initial workflow state of a query on an
\* engine whose MemorySaver holds the checkpoints of saver.
initial_state(mem, saver, engine, question, document_name, supplied) ==
    LET thread_id == ThreadOf(supplied, mem.uuids)
    IN  [IdleQuery EXCEPT
           !.pc = "retrieve",
           !.user_id = engine.user_id,
           !.conversation_id = engine.conversation_id,
           !.question = question,
           !.document_name = document_name,
           !.thread_id = thread_id,
           !.supplied = supplied,
           !.checkpoint = thread_id \in saver,
           !.earlier = thread_id \in mem.written]

\* A call of query on one of the program's engines.
Query(threads, names, limit) ==
    \E engine \in EngineScopes, question \in Questions,
       document_name \in names, supplied \in threads :
        /\ qa.pc \in {"idle", "retrieved", "failed", "done"}
        /\ queries < limit
        /\ queries' = queries + 1
        /\ memory' = Checkpointed(memory, engine, supplied)
        /\ qa' = initial_state(memory,
                               IF engine = SharedEngine THEN memory.saver ELSE {},
                               engine, question, document_name, supplied)
        /\ UNCHANGED <<documents, nextId, files, conversations, nextConvId,
                       uploads, vs, messages, sent, sideVars>>

\* A query without a thread id, as the command line and app.py run it.
StartQuery == Query({<<>>}, FileNames \cup {<<>>}, MaxQueries)

\* The failures the try block of the retrieve node can meet with n chunks.
RetrieveFailures(n) ==
    Failures(n) \cup {[kind |-> "ctor", at |-> 0], [kind |-> "search", at |-> 0]}

\* _retrieve_node on a workflow state, with the tables and the directory as
\* they are: every way the node can end, as the tables it leaves and the
\* state it returns (pc "failed": it raised).
retrieve_node(state, rows, first, fls) ==
    LET engine == QAEngine(state.user_id, state.conversation_id)
        loaded == load_documents(rows, fls, engine, state.document_name)
        chunks == split_documents(loaded)
        seen == [state EXCEPT !.trace = Append(@, "retrieve"),
                              !.loaded = loaded,
                              !.scope_ids = IdsOf(DbDocs(rows, engine, <<>>)),
                              !.named_ids = IdsOf(DbDocs(rows, engine, state.document_name))]
        unread == [documents |-> rows, nextId |-> first,
                   state |-> [state EXCEPT !.pc = "failed",
                                           !.failure = [kind |-> "load", at |-> 0]]]
        agent == [documents |-> rows, nextId |-> first,
                  state |-> [seen EXCEPT !.pc = AfterNode("retrieve", TRUE),
                                         !.documents = <<>>,
                                         !.context = <<>>,
                                         !.use_agent_mode = TRUE]]
        Searched(failure, v) ==
            LET out == AbsorbFailure(v, chunks)
            IN  [documents |-> v.documents, nextId |-> v.nextId,
                 state |-> IF out.raised
                           THEN [seen EXCEPT !.pc = "failed", !.chunks = chunks,
                                             !.failure = failure]
                           ELSE [seen EXCEPT
                                   !.pc = AfterNode("retrieve", FALSE),
                                   !.chunks = chunks,
                                   !.failure = failure,
                                   !.indexed = IdsOf(v.documents) \ IdsOf(rows),
                                   !.documents = out.relevant,
                                   !.context = Join(PageContents(out.relevant)),
                                   !.use_agent_mode = FALSE]]
    IN  {unread}
          \cup (IF Len(loaded) = 0 THEN {agent} ELSE {})
          \cup (IF Len(loaded) > 0 /\ first - 1 + Len(chunks) <= MaxRows
                THEN UNION {{Searched(failure, v) :
                               v \in VectorSearch(rows, first, engine, chunks,
                                                  state.question, failure)} :
                            failure \in RetrieveFailures(Len(chunks))}
                ELSE {})

\* The retrieve node of a running query.
RetrieveNode ==
    /\ qa.pc = "retrieve"
    /\ \E out \in retrieve_node(qa, documents, nextId, files) :
         /\ documents' = out.documents
         /\ nextId' = out.nextId
         /\ qa' = out.state
    /\ UNCHANGED <<files, conversations, nextConvId, uploads, queries, vs,
                   chatVars, sideVars>>

Next ==
    \/ CreateConversation
    \/ UploadDocument
    \/ StartQuery
    \/ RetrieveNode

Spec == Init /\ [][Next]_vars

\* The same program with uploads too long for one similarity search.
NextLong ==
    \/ CreateConversation
    \/ UploadLongDocument
    \/ StartQuery
    \/ RetrieveNode

SpecLong == Init /\ [][NextLong]_vars

(***************************************************************************)
(* The whole workflow of a query, retrieve then generate, and query_simple.*)
(***************************************************************************)
MaxFlowQueries == 2

\* The text of a note: one chunk.
NoteText == DocText(1, 1, 1)

\* The tables and the directory after user 1 has created conversation 1 and
\* uploaded the note a.txt to it.
NoteRows == {DBDocument(1, <<"a.txt">>, NoteText, NULL, 1, 1)}

\* The same with a.txt a text of more chunks than one search is asked for.
LongRows ==
    {DBDocument(1, <<"a.txt">>, DocText(1, 1, RetrieveK + 1), NULL, 1, 1)}

\* The program with one of a few tables of documents, the file of each in
\* the upload directory.
FlowInit(tables) ==
    /\ documents \in tables
    /\ nextId = Cardinality(documents) + 1
    /\ files = [f \in FileNames |->
                  IF f = <<"a.txt">> /\ \E r \in documents : r.filename = f
                  THEN (CHOOSE r \in documents : r.filename = f).content
                  ELSE NoFile]
    /\ conversations = IF documents = {} THEN {} ELSE {Conversation(1, 1, <<>>)}
    /\ nextConvId = Cardinality(conversations) + 1
    /\ uploads = Cardinality(documents)
    /\ queries = 0
    /\ vs = NoCall
    /\ qa = IdleQuery
    /\ messages = <<>>
    /\ memory = NoCheckpoints
    /\ sent = NoReply
    /\ par = [runs |-> 0]
    /\ loader = EmptyLoader

\* The program as it starts, or with the note uploaded.
InitFlow == FlowInit({{}, NoteRows})

\* The thread ids a caller of query passes: none, or one of its own.
FlowThreads == {<<>>, <<"t1">>}

FlowQuery == Query(FlowThreads, {<<>>}, MaxFlowQueries)

\* What the model may do at the re-prompt: anything when the first reply asks
\* for the content; otherwise no second call is made.
SecondOutcomes(first) ==
    IF ~first.raised /\ AsksForContent(first.content) THEN LLMOutcomes
    ELSE {Returned(<<>>)}

\* The workflow state when _generate_node has run on it (pc "failed": it
\* raised).
generated(state, built, first, second) ==
    LET g == generate_node(state, built, first, second)
    IN  IF g.raised
        THEN [state EXCEPT !.pc = "failed", !.error = g.error,
                           !.calls = g.calls,
                           !.outcomes = IF built THEN <<first, second>>
                                        ELSE <<>>]
        ELSE [state EXCEPT !.pc = AfterNode("generate", state.use_agent_mode),
                           !.answer = g.answer, !.mode = g.mode,
                           !.metadata = g.metadata,
                           !.calls = g.calls,
                           !.outcomes = <<first, second>>,
                           !.trace = Append(@, "generate")]

\* _generate_node, run when retrieve has handed its state over.
GenerateNode ==
    \E built \in BOOLEAN, first \in LLMOutcomes :
      \E second \in SecondOutcomes(first) :
            /\ qa.pc = "retrieved"
            /\ qa' = generated(qa, built, first, second)
            /\ UNCHANGED <<documents, nextId, files, conversations, nextConvId,
                           uploads, queries, vs, chatVars, sideVars>>

\* A call of query_simple, on an engine of any scope.
QuerySimple ==
    \E question \in Questions, built \in BOOLEAN, first \in LLMOutcomes :
        LET r == query_simple(question, built, first)
        IN  /\ queries < MaxFlowQueries
            /\ queries' = queries + 1
            /\ sent' = [NoReply EXCEPT
                          !.op = "query_simple", !.question = question,
                          !.raised = r.raised, !.answer = r.answer,
                          !.calls = r.calls,
                          !.errors = IF r.raised THEN <<r.error>> ELSE <<>>,
                          !.outcomes = <<first>>]
            /\ UNCHANGED <<documents, nextId, files, conversations, nextConvId,
                           uploads, vs, qa, messages, memory, sideVars>>

NextFlow ==
    \/ FlowQuery
    \/ RetrieveNode
    \/ GenerateNode
    \/ QuerySimple

SpecFlow == InitFlow /\ [][NextFlow]_vars

\* Retrieval alone, over the note and over the long text.
InitRetrieve == FlowInit({NoteRows, LongRows})

NextRetrieve ==
    \/ FlowQuery
    \/ RetrieveNode

SpecRetrieve == InitRetrieve /\ [][NextRetrieve]_vars

(***************************************************************************)
(* POST /chat/send: the conversation, the user's message, a query on an     *)
(* engine made for the request, the fallbacks, the assistant's message.     *)
(***************************************************************************)
MaxSends == 2
MaxLoneSends == 1

\* A row of the messages table.
Message(conversation_id, role, content) ==
    [conversation_id |-> conversation_id, role |-> role, content |-> content]

\* The messages of a conversation, oldest first.
MessagesOf(rows, conversation_id) ==
    SelectSeq(rows, LAMBDA m : m.conversation_id = conversation_id)

\* doc.page_content[:200] + "..."
Excerpt(page_content) == [first200 |-> page_content, then |-> "..."]

\* The sources of a query's result.
Sources(docs) ==
    [i \in 1..Len(docs) |->
        [source |-> docs[i].metadata.source, id |-> docs[i].metadata.id,
         content |-> Excerpt(docs[i].page_content),
         similarity |-> docs[i].metadata.similarity]]

\* ainvoke: retrieve, then generate unless retrieve raised.  Every way the
\* workflow can end, as the tables it leaves and its last state.
Workflow(state, rows, first, fls, built, reply, second) ==
    {[documents |-> r.documents, nextId |-> r.nextId,
      state |-> IF r.state.pc = "failed" THEN r.state
                ELSE generated(r.state, built, reply, second)] :
        r \in retrieve_node(state, rows, first, fls)}

\* What the exception of a failed workflow says.
ErrorOf(state) ==
    IF state.failure.kind = "load" THEN <<"load">> ELSE state.error

\* f"I apologize, but I encountered an error: {str(e2)}"
Apology(error) == <<"I apologize, but I encountered an error: ">> \o error

\* A handler that apologises for the error of the workflow.
FallbackFirstError(error, simple) ==
    [answer |-> IF simple.raised THEN Apology(error) ELSE simple.answer,
     errors |-> IF simple.raised THEN <<error, simple.error>> ELSE <<error>>,
     calls |-> simple.calls, retries |-> 1]

\* `except Exception as e:` one call of query_simple, and `except Exception
\* as e2:` the apology for e2.
Fallback(error, simple) ==
    [answer |-> IF simple.raised THEN Apology(simple.error) ELSE simple.answer,
     errors |-> IF simple.raised THEN <<error, simple.error>> ELSE <<error>>,
     calls |-> simple.calls, retries |-> 1]

\* The try block around query: the answer and the sources.
Answered(state, question, rebuilt, retry) ==
    IF state.pc # "failed"
    THEN [answer |-> state.answer, sources |-> Sources(state.documents),
          errors |-> <<>>, calls |-> state.calls, retries |-> 0]
    ELSE LET f == Fallback(ErrorOf(state), query_simple(question, rebuilt, retry))
         IN  [answer |-> f.answer, sources |-> <<>>, errors |-> f.errors,
              calls |-> state.calls \o f.calls, retries |-> f.retries]

\* "Track document matches if sources were used": with sources the handler
\* imports MessageDocumentMatch from database/models.py, which defines no
\* such class; the ImportError reaches the outer handler, which answers 500.
\* The two messages are committed by then.
StatusAfterTracking(sources) == IF Len(sources) > 0 THEN 500 ELSE 200

\* What the model does in a request: it answers, or it raises.
ChatOutcomes == {Raised(error) : error \in Errors} \cup {Returned(<<"ok">>)}

\* What the model may do at the first call of generate: anything when the
\* model was built; otherwise no call is made.
FirstOutcomes(built) == IF built THEN ChatOutcomes ELSE {Returned(<<>>)}

\* What query_simple may meet: when the workflow raised, a model that cannot
\* be built or one that does anything; otherwise query_simple is not called.
RetryOutcomes(state) ==
    IF state.pc = "failed"
    THEN {[built |-> FALSE, reply |-> Returned(<<>>)]}
            \cup {[built |-> TRUE, reply |-> o] : o \in ChatOutcomes}
    ELSE {[built |-> TRUE, reply |-> Returned(<<>>)]}

\* send_message for a conversation the user does not own or that does not
\* exist: 404.
NotFound(limit) ==
    \E user \in Users, conversation_id \in ConvIds, question \in Questions :
        /\ queries < limit
        /\ ~\E c \in conversations : c.id = conversation_id /\ c.user_id = user
        /\ queries' = queries + 1
        /\ sent' = [NoReply EXCEPT !.op = "send_message", !.status = 404,
                                   !.raised = TRUE, !.question = question]
        /\ UNCHANGED <<documents, nextId, files, conversations, nextConvId,
                       uploads, vs, qa, messages, memory, sideVars>>

\* send_message
Send(limit) ==
    \E user \in Users, conversation_id \in ConvIds \cup {NULL},
       question \in Questions, built \in BOOLEAN :
      \E reply \in FirstOutcomes(built) :
      \E second \in SecondOutcomes(reply) :
        LET create == conversation_id = NULL
            owned == {c \in conversations :
                        c.id = conversation_id /\ c.user_id = user}
            uuids == IF create THEN memory.uuids + 1 ELSE memory.uuids
            conversation ==
                IF create THEN Conversation(nextConvId, user, uuid4(uuids))
                ELSE CHOOSE c \in owned : TRUE
            engine == QAEngine(user, conversation.id)
            mem == [memory EXCEPT !.uuids = uuids]
            start == initial_state(mem, {}, engine, question, <<>>,
                                   conversation.thread_id)
            user_msg == Message(conversation.id, "user", question)
        IN  /\ queries < limit
            /\ IF create THEN nextConvId \in ConvIds ELSE owned # {}
            /\ queries' = queries + 1
            /\ conversations' = conversations \cup {conversation}
            /\ nextConvId' = IF create THEN nextConvId + 1 ELSE nextConvId
            /\ memory' = Checkpointed(mem, engine, conversation.thread_id)
            /\ \E run \in Workflow(start, documents, nextId, files, built,
                                   reply, second) :
                 \E retry \in RetryOutcomes(run.state) :
                   LET a == Answered(run.state, question, retry.built, retry.reply)
                   IN  /\ documents' = run.documents
                       /\ nextId' = run.nextId
                       /\ messages' = messages \o
                            <<user_msg,
                              Message(conversation.id, "assistant", a.answer)>>
                       /\ sent' = [NoReply EXCEPT
                                     !.op = "send_message",
                                     !.status = StatusAfterTracking(a.sources),
                                     !.raised = StatusAfterTracking(a.sources) # 200,
                                     !.conversation_id = conversation.id,
                                     !.question = question,
                                     !.answer = a.answer,
                                     !.sources = a.sources,
                                     !.errors = a.errors,
                                     !.calls = a.calls,
                                     !.outcomes = <<reply, second, retry.reply>>,
                                     !.built = <<built, retry.built>>,
                                     !.retries = a.retries,
                                     !.prior = MessagesOf(messages, conversation.id),
                                     !.state = run.state]
            /\ UNCHANGED <<files, uploads, vs, qa, sideVars>>

SendMessage == Send(MaxSends)

SendNotFound == NotFound(MaxSends)

\* Requests one after another.
NextChat ==
    \/ SendMessage
    \/ SendNotFound

SpecChat == InitFlow /\ [][NextChat]_vars

SendOneMessage == Send(MaxLoneSends)

OneNotFound == NotFound(MaxLoneSends)

\* One request.
NextSend ==
    \/ SendOneMessage
    \/ OneNotFound

SpecSend == InitFlow /\ [][NextSend]_vars

(***************************************************************************)
(* The requests that name a conversation.  Each handler begins with the    *)
(* same query for the conversation of that id and of the current user, and *)
(* answers 404 when there is none.                                          *)
(***************************************************************************)

\* A query for the conversation that looks at its id only.
AnyConversation(convs, user, conversation_id) ==
    {c \in convs : c.id = conversation_id}

\* db.query(Conversation).filter(Conversation.id == conversation_id,
\* Conversation.user_id == current_user.id).first(), as a set: empty for None.
OwnConversation(convs, user, conversation_id) ==
    {c \in convs : c.id = conversation_id /\ c.user_id = user}

\* The reply to a request that names a conversation.
Answer(op, user, conversation_id, status) ==
    [op |-> op, user |-> user, conversation_id |-> conversation_id,
     status |-> status]

\* GET /chat/conversations/{id}/messages: reads only.
GetConversationMessages ==
    \E user \in Users, conversation_id \in ConvIds :
        LET conversation == OwnConversation(conversations, user, conversation_id)
        IN  /\ sent' = Answer("get_conversation_messages", user, conversation_id,
                              IF conversation = {} THEN 404 ELSE 200)
            /\ UNCHANGED <<documents, nextId, files, conversations, nextConvId,
                           uploads, queries, vs, qa, messages, memory, sideVars>>

\* GET /chat/documents: reads only.
ListUserDocuments ==
    \E user \in Users, conversation_id \in ConvIds :
        LET conversation == OwnConversation(conversations, user, conversation_id)
        IN  /\ sent' = Answer("list_user_documents", user, conversation_id,
                              IF conversation = {} THEN 404 ELSE 200)
            /\ UNCHANGED <<documents, nextId, files, conversations, nextConvId,
                           uploads, queries, vs, qa, messages, memory, sideVars>>

\* POST /chat/send with the id of a conversation that is not the user's: the
\* HTTPException is raised before the handler writes anything.
SendRefused ==
    \E user \in Users, conversation_id \in ConvIds :
        /\ OwnConversation(conversations, user, conversation_id) = {}
        /\ sent' = Answer("send_message", user, conversation_id, 404)
        /\ UNCHANGED <<documents, nextId, files, conversations, nextConvId,
                       uploads, queries, vs, qa, messages, memory, sideVars>>

\* DELETE /chat/conversations/{id}: db.delete(conversation) takes the
\* conversation's messages with it (cascade "all, delete-orphan").  Rows of
\* documents refer to the conversation by a foreign key and are not part of
\* the cascade: a database that enforces the key refuses the commit (500), one
\* that does not leaves them.
DeleteConversation ==
    \E user \in Users, conversation_id \in ConvIds, enforced \in BOOLEAN :
        LET conversation == OwnConversation(conversations, user, conversation_id)
            referenced == \E r \in documents : r.conversation_id = conversation_id
            status == IF conversation = {} THEN 404
                      ELSE IF enforced /\ referenced THEN 500 ELSE 200
        IN  /\ sent' = Answer("delete_conversation", user, conversation_id, status)
            /\ IF status = 200
               THEN /\ conversations' = conversations \ conversation
                    /\ messages' = SelectSeq(messages,
                           LAMBDA m : m.conversation_id # conversation_id)
               ELSE UNCHANGED <<conversations, messages>>
            /\ UNCHANGED <<documents, nextId, files, nextConvId, uploads,
                           queries, vs, qa, memory, sideVars>>

\* POST /chat/upload-document by any user: the conversation is looked up
\* before the file is read; then the file is written, and the row follows
\* unless processing the file raises (500).
UploadToConversation ==
    \E user \in Users, conversation_id \in ConvIds, name \in FileNames,
       processed \in BOOLEAN :
        LET conversation == OwnConversation(conversations, user, conversation_id)
            content == DocText(user, conversation_id, 1)
            status == IF conversation = {} THEN 404
                      ELSE IF processed THEN 200 ELSE 500
        IN  /\ uploads < MaxUploads
            /\ nextId <= MaxRows
            /\ sent' = Answer("upload_document", user, conversation_id, status)
            /\ IF conversation = {}
               THEN UNCHANGED <<files, uploads, documents, nextId>>
               ELSE /\ files' = [files EXCEPT ![name] = content]
                    /\ uploads' = uploads + 1
                    /\ IF processed
                       THEN /\ documents' = documents \cup
                                 {DBDocument(nextId, name, content, NULL, user,
                                             conversation_id)}
                            /\ nextId' = nextId + 1
                       ELSE UNCHANGED <<documents, nextId>>
            /\ UNCHANGED <<conversations, nextConvId, queries, vs, qa, messages,
                           memory, sideVars>>

\* The database after user 1 uploaded the note to conversation 1 and sent one
\* message there, which was answered; the process has been started anew since
\* (no checkpoint is kept across a start).
InitOwner ==
    /\ documents = NoteRows
    /\ nextId = Cardinality(documents) + 1
    /\ files = [f \in FileNames |->
                  IF f = <<"a.txt">>
                  THEN (CHOOSE r \in documents : r.filename = f).content
                  ELSE NoFile]
    /\ conversations = {Conversation(1, 1, <<>>)}
    /\ nextConvId = 2
    /\ uploads = 1
    /\ queries = 0
    /\ vs = NoCall
    /\ qa = IdleQuery
    /\ messages = <<Message(1, "user", 1), Message(1, "assistant", <<"ok">>)>>
    /\ memory = NoCheckpoints
    /\ sent = NoReply
    /\ par = [runs |-> 0]
    /\ loader = EmptyLoader

\* Requests of the two users, one after another.
NextOwner ==
    \/ CreateConversation
    \/ SendRefused
    \/ GetConversationMessages
    \/ ListUserDocuments
    \/ DeleteConversation
    \/ UploadToConversation

SpecOwner == InitOwner /\ [][NextOwner]_vars

(***************************************************************************)
(* Two queries side by side, a and b, on engines of different scopes.  The  *)
(* retrieve node is taken apart at the places where it reads or writes the  *)
(* database: the document query, each committed row of add_texts, the       *)
(* similarity search.                                                       *)
(***************************************************************************)
MaxParQueries == 1

\* User 1 has two conversations, with a.txt (two chunks) in the first and
\* b.txt (one chunk) in the second; both files are in the upload directory.
ParRows ==
    {DBDocument(1, <<"a.txt">>, DocText(1, 1, 2), NULL, 1, 1),
     DBDocument(2, <<"b.txt">>, DocText(1, 2, 1), NULL, 1, 2)}

\* The engines of send_message (a conversation of user 1) and of
\* get_qa_engine (a user, no conversation).
ParScopes ==
    {QAEngine(1, 1), QAEngine(1, 2), QAEngine(1, NULL), QAEngine(2, NULL)}

\* The state after the two uploads, with the engine of query a made.
InitPar ==
    /\ documents = ParRows
    /\ nextId = 3
    /\ files = [f \in FileNames |->
                  IF f = <<"a.txt">> THEN DocText(1, 1, 2) ELSE DocText(1, 2, 1)]
    /\ conversations = {Conversation(1, 1, <<>>), Conversation(2, 1, <<>>)}
    /\ nextConvId = 3
    /\ uploads = 2
    /\ queries = 0
    /\ vs = NoCall
    /\ qa = IdleQuery
    /\ messages = <<>>
    /\ memory = NoCheckpoints
    /\ sent = NoReply
    /\ \E engine \in ParScopes :
         par = [NoRace EXCEPT !.a.user_id = engine.user_id,
                              !.a.conversation_id = engine.conversation_id]
    /\ loader = EmptyLoader

ParUnchanged ==
    UNCHANGED <<files, conversations, nextConvId, uploads, queries, vs, qa,
                chatVars, loader>>

\* A retrieve node that goes on to the search when a step before it failed.
SearchedAnyway(state, failure) ==
    [state EXCEPT !.pc = "search", !.failure = failure]

\* The except clause of the retrieve node, reached with a failure.
FellBack(state, failure) ==
    [state EXCEPT !.pc = AfterNode("retrieve", FALSE),
                  !.failure = failure,
                  !.documents = AbsorbFailure([raised |-> TRUE, relevant |-> <<>>],
                                              state.chunks).relevant,
                  !.context = Join(PageContents(AbsorbFailure(
                                  [raised |-> TRUE, relevant |-> <<>>],
                                  state.chunks).relevant)),
                  !.use_agent_mode = FALSE]

\* query a begins, on its engine.
StartA ==
    \E question \in Questions :
        /\ par.a.pc = "idle"
        /\ par' = [par EXCEPT !.a.pc = "retrieve", !.a.question = question,
                              !.start = [documents |-> documents,
                                         nextId |-> nextId]]
        /\ UNCHANGED <<documents, nextId>>
        /\ ParUnchanged

\* A query b begins, on an engine of another scope than a's.
StartB ==
    \E engine \in ParScopes, question \in Questions :
        /\ par.b.pc \in {"idle", "retrieved", "failed"}
        /\ par.runs < MaxParQueries
        /\ engine # QAEngine(par.a.user_id, par.a.conversation_id)
        /\ par' = [par EXCEPT !.b = [IdleQuery EXCEPT
                                       !.pc = "retrieve",
                                       !.user_id = engine.user_id,
                                       !.conversation_id = engine.conversation_id,
                                       !.question = question],
                              !.runs = @ + 1]
        /\ UNCHANGED <<documents, nextId>>
        /\ ParUnchanged

\* _load_documents and split_documents: the document query raises, or there
\* is nothing to load (agent mode), or there are chunks to index.
LoadStep(p) ==
    LET state == par[p]
        engine == QAEngine(state.user_id, state.conversation_id)
        loaded == load_documents(documents, files, engine, state.document_name)
        chunks == split_documents(loaded)
    IN  /\ state.pc = "retrieve"
        /\ \/ par' = [par EXCEPT ![p].pc = "failed",
                                 ![p].failure = [kind |-> "load", at |-> 0]]
           \/ /\ Len(loaded) = 0
              /\ par' = [par EXCEPT ![p].pc = AfterNode("retrieve", TRUE),
                                    ![p].use_agent_mode = TRUE]
           \/ /\ Len(loaded) > 0
              /\ par' = [par EXCEPT ![p].pc = "embed", ![p].loaded = loaded,
                                    ![p].chunks = chunks]
        /\ UNCHANGED <<documents, nextId>>
        /\ ParUnchanged

\* OpenAIEmbeddings() and embed_documents: they raise, or the rows can be
\* written.
EmbedStep(p) ==
    LET state == par[p]
    IN  /\ state.pc = "embed"
        /\ \/ \E kind \in {"ctor", "embed"} :
                par' = [par EXCEPT ![p] = FellBack(state, [kind |-> kind, at |-> 0])]
           \/ par' = [par EXCEPT ![p].pc = IF Len(state.chunks) = 0 THEN "search"
                                           ELSE "add"]
        /\ UNCHANGED <<documents, nextId>>
        /\ ParUnchanged

\* One turn of the loop of add_texts: db.add and db.commit of the next text,
\* or their failure.
AddStep(p) ==
    LET state == par[p]
        store == VectorStore(state.user_id, state.conversation_id)
        i == Cardinality(state.indexed) + 1
        n == Len(state.chunks)
        row == CHOOSE r \in NewRows(store, PageContents(state.chunks),
                                    Metadatas(state.chunks), i, nextId - i + 1) :
                  r.id = nextId
    IN  /\ state.pc = "add"
        /\ \/ /\ i \in FailurePoints(n)
              /\ par' = [par EXCEPT ![p] = FellBack(state, [kind |-> "commit", at |-> i])]
              /\ UNCHANGED <<documents, nextId>>
           \/ /\ nextId <= MaxRows
              /\ documents' = documents \cup {row}
              /\ nextId' = nextId + 1
              /\ par' = [par EXCEPT ![p].indexed = @ \cup {nextId},
                                    ![p].pc = IF i = n THEN "search" ELSE "add"]
        /\ ParUnchanged

\* similarity_search with k = min(10, len(chunks)), or its failure.
SearchStep(p) ==
    LET state == par[p]
        store == VectorStore(state.user_id, state.conversation_id)
    IN  /\ state.pc = "search"
        /\ \/ par' = [par EXCEPT ![p] = FellBack(state, [kind |-> "search", at |-> 0])]
           \/ \E res \in similarity_search(documents, store, state.question,
                                          k_value(state.chunks)) :
                par' = [par EXCEPT ![p].pc = AfterNode("retrieve", FALSE),
                                   ![p].documents = res,
                                   ![p].context = Join(PageContents(res)),
                                   ![p].use_agent_mode = FALSE]
        /\ UNCHANGED <<documents, nextId>>
        /\ ParUnchanged

Sides == {"a", "b"}

Load == \E p \in Sides : LoadStep(p)

Embed == \E p \in Sides : EmbedStep(p)

AddText == \E p \in Sides : AddStep(p)

Search == \E p \in Sides : SearchStep(p)

NextPar ==
    \/ StartA
    \/ StartB
    \/ Load
    \/ Embed
    \/ AddText
    \/ Search

SpecPar == InitPar /\ [][NextPar]_vars

(***************************************************************************)
(* Requests to POST /chat/send side by side.  The handler commits the user *)
(* message, awaits the query, and commits the assistant message: other     *)
(* requests run between the two commits.                                    *)
(***************************************************************************)
MaxTurns == 2

\* A handler that keeps the user message back until it has the answer.
NotYetAsked(rows, conversation_id, question) ==
    rows

\* user_msg = Message(..., role="user", content=request.message); db.add;
\* db.commit
Asked(rows, conversation_id, question) ==
    Append(rows, Message(conversation_id, "user", question))

\* assistant_msg = Message(..., role="assistant", content=answer); db.add;
\* db.commit
Replied(rows, conversation_id, answer) ==
    Append(rows, Message(conversation_id, "assistant", answer))

\* A request that is not in the handler.
NoRequest == [pc |-> "idle", user |-> NULL, conversation |-> NULL, question |-> NULL]

\* The messages of one role in a conversation, counted.
CountRole(rows, conversation_id, role) ==
    Len(SelectSeq(rows, LAMBDA m : m.conversation_id = conversation_id
                                     /\ m.role = role))

\* User 1 has made a conversation with POST /chat/conversations; nothing has
\* been uploaded.
InitTurns ==
    /\ documents = {}
    /\ nextId = 1
    /\ files = [f \in FileNames |-> NoFile]
    /\ conversations = {Conversation(1, 1, <<>>)}
    /\ nextConvId = 2
    /\ uploads = 0
    /\ queries = 0
    /\ vs = NoCall
    /\ qa = IdleQuery
    /\ messages = <<>>
    /\ memory = NoCheckpoints
    /\ sent = NoReply
    /\ par = [p \in Sides |-> NoRequest]
    /\ loader = EmptyLoader

\* send_message up to the commit of the user message: the conversation is
\* looked up or created, and the user message stored.
BeginSend(p) ==
    \E user \in Users, conversation_id \in ConvIds \cup {NULL},
       question \in Questions :
        LET create == conversation_id = NULL
            own == OwnConversation(conversations, user, conversation_id)
            uuids == IF create THEN memory.uuids + 1 ELSE memory.uuids
            conversation ==
                IF create THEN Conversation(nextConvId, user, uuid4(uuids))
                ELSE CHOOSE c \in own : TRUE
        IN  /\ par[p].pc = "idle"
            /\ queries < MaxTurns
            /\ IF create THEN nextConvId \in ConvIds ELSE own # {}
            /\ queries' = queries + 1
            /\ conversations' = conversations \cup {conversation}
            /\ nextConvId' = IF create THEN nextConvId + 1 ELSE nextConvId
            /\ memory' = [memory EXCEPT !.uuids = uuids]
            /\ messages' = Asked(messages, conversation.id, question)
            /\ par' = [par EXCEPT ![p] = [pc |-> "asked", user |-> user,
                                          conversation |-> conversation,
                                          question |-> question]]
            /\ UNCHANGED <<documents, nextId, files, uploads, vs, qa, sent,
                           loader>>

\* send_message from the query on: the engine of the request, the workflow,
\* the fallbacks, the assistant message, the tracking of the sources.
FinishSend(p) ==
    \E built \in BOOLEAN :
      \E reply \in FirstOutcomes(built) :
      \E second \in SecondOutcomes(reply) :
        LET conversation == par[p].conversation
            question == par[p].question
            engine == QAEngine(par[p].user, conversation.id)
            start == initial_state(memory, {}, engine, question, <<>>,
                                   conversation.thread_id)
        IN  /\ par[p].pc = "asked"
            /\ memory' = Checkpointed(memory, engine, conversation.thread_id)
            /\ \E run \in Workflow(start, documents, nextId, files, built,
                                   reply, second) :
                 \E retry \in RetryOutcomes(run.state) :
                   LET a == Answered(run.state, question, retry.built, retry.reply)
                   IN  /\ documents' = run.documents
                       /\ nextId' = run.nextId
                       /\ messages' = Replied(messages, conversation.id, a.answer)
                       /\ sent' = [NoReply EXCEPT
                                     !.op = "send_message",
                                     !.status = StatusAfterTracking(a.sources),
                                     !.raised = StatusAfterTracking(a.sources) # 200,
                                     !.conversation_id = conversation.id,
                                     !.question = question,
                                     !.answer = a.answer,
                                     !.sources = a.sources]
            /\ par' = [par EXCEPT ![p] = NoRequest]
            /\ UNCHANGED <<files, conversations, nextConvId, uploads, queries,
                           vs, qa, loader>>

Begin == \E p \in Sides : BeginSend(p)

Finish == \E p \in Sides : FinishSend(p)

NextTurns ==
    \/ Begin
    \/ Finish

SpecTurns == InitTurns /\ [][NextTurns]_vars

(***************************************************************************)
(* The configuration: reloads of the file as it is found, and lookups.      *)
(***************************************************************************)
MaxSections == 2

ProviderSections ==
    {Section("openai", "openai", "gpt-4o", ""),
     Section("azure", "azure_openai", "", "gpt-4"),
     Section("azure", "", "gpt-4", ""),
     Section("metadata", "", "", "")}

\* A few tables, no name twice, in any order.
SectionLists ==
    {l \in SeqsUpTo(ProviderSections, MaxSections) :
        \A i, j \in 1..Len(l) : l[i].name = l[j].name => i = j}

DefaultSections ==
    {DefaultSection("", "", ""),
     DefaultSection("azure", "", ""),
     DefaultSection("metadata", "", ""),
     DefaultSection("azure", "anthropic", "claude"),
     DefaultSection("", "anthropic", "claude"),
     DefaultSection("", "anthropic", "")}

ConfigFiles ==
    {MissingFile,
     [exists |-> TRUE, parses |-> FALSE, sections |-> <<>>,
      default |-> DefaultSection("", "", "")]}
        \cup {[exists |-> TRUE, parses |-> TRUE, sections |-> l, default |-> d] :
                l \in SectionLists, d \in DefaultSections}

\* The names a caller asks for; "" is no name.
ProviderNames == {"", "openai", "azure", "metadata", "default"}

\* llm_loader.reload() with the file as it is now.
Reload ==
    \E file \in ConfigFiles :
        LET r == reload(loader, file)
        IN  /\ loader' = [providers |-> r.providers, default |-> r.default,
                          source |-> file, loaded |-> ~r.raised,
                          call |-> [NoLoaderCall EXCEPT
                                      !.op = "reload", !.file = file,
                                      !.raised = r.raised, !.error = r.error]]
            /\ UNCHANGED <<documents, nextId, files, conversations, nextConvId,
                           uploads, queries, vs, qa, chatVars, par>>

\* llm_loader.get_provider_config(name)
GetProviderConfig ==
    \E name \in ProviderNames :
        LET r == get_provider_config(loader, name)
        IN  /\ loader' = [loader EXCEPT
                            !.call = [NoLoaderCall EXCEPT
                                        !.op = "get_provider_config",
                                        !.name = name, !.raised = r.raised,
                                        !.error = r.error, !.result = r.result]]
            /\ UNCHANGED <<documents, nextId, files, conversations, nextConvId,
                           uploads, queries, vs, qa, chatVars, par>>

NextConfig ==
    \/ Reload
    \/ GetProviderConfig

SpecConfig == Init /\ [][NextConfig]_vars

(***************************************************************************)
(* The workflow's contract.                                                *)
(***************************************************************************)

\* C12: one run of generate calls the model at most twice: the prompt of the
\* mode and at most one general-knowledge re-prompt, even when the re-prompted
\* answer again asks for the content.
GenerateCallsModelAtMostTwice ==
    /\ Len(qa.calls) <= 2
    /\ Len(qa.calls) >= 1 => qa.calls[1].kind \in {"agent", "rag"}
    /\ Len(qa.calls) = 2 => qa.calls[2] = GeneralPrompt(qa.question)

\* A generate that re-prompted, took the re-prompt's answer, and left it
\* although it asks for the content again.
RepromptedAnswerAsksAgain ==
    /\ qa.pc = "done"
    /\ Len(qa.calls) = 2
    /\ qa.answer = qa.outcomes[2].content
    /\ qa.answer # qa.outcomes[1].content
    /\ AsksForContent(qa.answer)

\* C13: a query that completes has run retrieve once, then generate once, and
\* nothing else, in agent mode as in rag mode; generate never runs before
\* retrieve has returned.
WorkflowOrderIsFixed ==
    /\ qa.pc \in {"idle", "retrieve"} => qa.trace = <<>>
    /\ qa.pc = "retrieved" => qa.trace = <<"retrieve">>
    /\ qa.pc = "done" =>
         /\ qa.trace = <<"retrieve", "generate">>
         /\ qa.mode = IF qa.use_agent_mode THEN "agent" ELSE "rag"
    /\ Len(qa.calls) > 0 => qa.trace # <<>>

\* A query that completed in agent mode.
AgentQueryCompleted ==
    /\ qa.pc = "done"
    /\ qa.use_agent_mode
    /\ qa.mode = "agent"
    /\ qa.trace = <<"retrieve", "generate">>

\* C21: in every outcome of a query the metadata agrees with the rest: the
\* number of sources is that of the sources returned, the context length is
\* that of the context handed to the model (none in agent mode), and the mode
\* is agent exactly when retrieve set agent mode, with no sources and a
\* context length of 0 then.
MetadataAgreesWithOutcome ==
    qa.pc = "done" =>
        /\ qa.metadata.num_sources = Len(Sources(qa.documents))
        /\ qa.metadata.context_length = Len(qa.calls[1].context)
        /\ qa.metadata.mode \in {"agent", "rag"}
        /\ qa.metadata.mode = "agent" <=> qa.calls[1].kind = "agent"
        /\ qa.metadata.mode = "agent" <=> qa.use_agent_mode
        /\ qa.metadata.mode = "agent" =>
              /\ Sources(qa.documents) = <<>>
              /\ qa.metadata.context_length = 0

\* A query that returned two sources found by the search, after an earlier
\* query of the scope had indexed its chunk.
TwoRankedSourcesCounted ==
    /\ qa.pc = "done"
    /\ qa.failure = NoFailure
    /\ qa.metadata.mode = "rag"
    /\ qa.metadata.num_sources = 2
    /\ qa.metadata.context_length = 3

\* C22: retrieve asks for min(10, number of chunks of this call) results, on
\* the ranked path as on the fallback path: a query has at most 10 sources
\* and at most as many as the call produced chunks, and exactly that minimum
\* on the fallback path and whenever the engine has a user (its scope then
\* holds at least the chunks just indexed).
SourcesAreMinOfTenAndChunks ==
    (qa.pc = "retrieved" /\ ~qa.use_agent_mode) =>
        /\ Len(qa.documents) <= 10
        /\ Len(qa.documents) <= Len(qa.chunks)
        /\ (qa.failure # NoFailure \/ qa.user_id # NULL) =>
              Len(qa.documents) = Min(10, Len(qa.chunks))

\* A search over the eleven chunks of the long text that returned ten.
TenOfElevenChunksFound ==
    /\ qa.pc = "retrieved"
    /\ qa.failure = NoFailure
    /\ Len(qa.chunks) = 11
    /\ Len(qa.documents) = 10
    /\ \A i \in 1..10 : qa.documents[i].metadata.id \in qa.indexed

\* C24: queries do not change the documents the document source reports for a
\* scope: whatever queries have run, the rows _load_documents and GET
\* /chat/documents select for a scope are the uploads of that scope (the rows
\* without an embedding: only add_texts writes one), and a query loads and
\* chunks the uploads only.
QueriesLeaveDocumentSourceAlone ==
    LET uploaded == {r \in documents : r.embedding = NULL}
    IN  /\ \A engine \in EngineScopes :
              DbDocs(documents, engine, <<>>) = DbDocs(uploaded, engine, <<>>)
        /\ qa.pc = "retrieved" =>
              \A i \in 1..Len(qa.loaded) :
                  qa.loaded[i].metadata.id \in IdsOf(uploaded) \cup {NULL}

\* C25: an outcome that reports the mode rag has sources and a context: the
\* prompt sent to the model carries a context that is not empty.
RagModeHasSourcesAndContext ==
    (qa.pc = "done" /\ qa.metadata.mode = "rag") =>
        /\ Len(Sources(qa.documents)) > 0
        /\ qa.context # <<>>
        /\ qa.calls[1].context # <<>>

\* C16: a query given no thread id runs under a fresh identifier, different
\* from that of every earlier call; a query given a thread id runs under and
\* returns exactly that id.
ThreadIdIsFreshOrSupplied ==
    qa.pc # "idle" =>
        IF Len(qa.supplied) > 0
        THEN qa.thread_id = qa.supplied
        ELSE /\ Len(qa.thread_id) > 0
             /\ ~qa.earlier
             /\ qa.thread_id \notin FlowThreads

\* The second query without a thread id, after a first that completed.
SecondFreshThread ==
    /\ qa.pc = "done"
    /\ qa.supplied = <<>>
    /\ memory.uuids = 2
    /\ Cardinality(memory.written) = 2

\* C17: query_simple is the generate stage run in agent mode with no context:
\* it loads, indexes and searches nothing, and sends the model the prompts,
\* and returns the answer, that generate would in agent mode on the same
\* replies.
QuerySimpleIsAgentGenerate ==
    sent.op = "query_simple" =>
        /\ sent.state.indexed = {}
        /\ sent.state.trace = <<>>
        /\ \E built \in BOOLEAN, second \in LLMOutcomes :
             LET state == [question |-> sent.question, use_agent_mode |-> TRUE,
                           context |-> <<>>, documents |-> <<>>,
                           chat_history |-> <<>>]
                 g == generate_node(state, built, sent.outcomes[1], second)
             IN  /\ g.raised = sent.raised
                 /\ g.calls = sent.calls
                 /\ g.answer = sent.answer

\* C20: when the first answer asks for the content (in any case of letters),
\* generate returns the re-prompt's answer if that answer has a character that
\* is not white space, and the first answer otherwise, also when the re-prompt
\* raised; generate does not fail.
RepromptReplacesOnlyWithText ==
    (Len(qa.outcomes) = 2 /\ AsksForContent(qa.outcomes[1].content)) =>
        LET first == qa.outcomes[1]
            second == qa.outcomes[2]
            text == /\ ~second.raised
                    /\ \E i \in 1..Len(second.content) : second.content[i] # " "
        IN  /\ qa.pc # "failed"
            /\ qa.answer = IF text THEN second.content ELSE first.content

\* A first answer asking for the content in capitals, a re-prompt that raised,
\* and the first answer kept.
RepromptRaisedAnswerKept ==
    /\ qa.pc = "done"
    /\ Len(qa.outcomes) = 2
    /\ qa.outcomes[1].content = <<"SEND", "the", "file">>
    /\ qa.outcomes[2].raised
    /\ qa.answer = qa.outcomes[1].content

(***************************************************************************)
(* The chat endpoint's contract.                                           *)
(***************************************************************************)

\* C11: send_message does not raise when the model provider fails.  When the
\* workflow raised, the request is answered (200) and query_simple was called
\* exactly once; the answer is what the model replied there, or, when that
\* call raised too (or no model could be built for it), the apology with the
\* second error's message.  The answer is the content of the assistant
\* message stored last, after the user's.
SendAbsorbsProviderFailures ==
    (sent.op = "send_message" /\ sent.state.pc = "failed") =>
        LET retry == sent.outcomes[3]
            second_error == IF sent.built[2] THEN retry.content
                            ELSE NoProviderError
        IN  /\ ~sent.raised
            /\ sent.status = 200
            /\ sent.retries = 1
            /\ Len(SelectSeq(sent.calls, LAMBDA c : c.kind = "question"))
                  = IF sent.built[2] THEN 1 ELSE 0
            /\ sent.answer = IF sent.built[2] /\ ~retry.raised
                             THEN retry.content
                             ELSE Apology(second_error)
            /\ Len(messages) >= 2
            /\ messages[Len(messages)]
                  = Message(sent.conversation_id, "assistant", sent.answer)
            /\ messages[Len(messages) - 1]
                  = Message(sent.conversation_id, "user", sent.question)

\* The workflow raised one error and query_simple another.
SentApologyForSecondError ==
    /\ sent.op = "send_message"
    /\ sent.status = 200
    /\ Len(sent.errors) = 2
    /\ sent.errors[1] # sent.errors[2]
    /\ sent.errors[1] \in {<<e>> : e \in Errors}
    /\ sent.answer = Apology(sent.errors[2])
    /\ messages[Len(messages)].content = sent.answer

ConversationQueriesShareItsThread ==
    (sent.op = "send_message" /\ sent.status # 404) =>
        \E c \in conversations :
            /\ c.id = sent.conversation_id
            /\ Len(c.thread_id) > 0
            /\ sent.state.thread_id = c.thread_id

\* C29: in every conversation, however requests to send_message interleave,
\* the assistant messages stored never outnumber the user messages: the user
\* messages exceed them by the requests for the conversation that have
\* stored theirs and are waiting for the query.  A request stores exactly its
\* user message before the query and exactly one assistant message of its
\* conversation after it, and then answers.
AssistantsNeverOutnumberUsers ==
    /\ [](\A c \in ConvIds :
            CountRole(messages, c, "user") - CountRole(messages, c, "assistant")
              = Cardinality({p \in Sides : /\ par[p].pc = "asked"
                                           /\ par[p].conversation.id = c}))
    /\ [][\A p \in Sides :
            /\ (par[p].pc = "idle" /\ par'[p].pc = "asked") =>
                  /\ messages' = Append(messages,
                        Message(par'[p].conversation.id, "user", par'[p].question))
                  /\ sent' = sent
                  /\ documents' = documents
            /\ (par[p].pc = "asked" /\ par'[p].pc = "idle") =>
                  /\ Len(messages') = Len(messages) + 1
                  /\ SubSeq(messages', 1, Len(messages)) = messages
                  /\ messages'[Len(messages')].role = "assistant"
                  /\ messages'[Len(messages')].conversation_id
                        = par[p].conversation.id
                  /\ sent'.answer = messages'[Len(messages')].content]_vars

\* Two requests for conversation 1 side by side: both user messages are
\* stored, then the answer to the first.
TwoAskedOneAnswered ==
    /\ Len(messages) = 3
    /\ messages[1].role = "user"
    /\ messages[2].role = "user"
    /\ messages[3].role = "assistant"
    /\ \A i \in 1..3 : messages[i].conversation_id = 1
    /\ Cardinality({p \in Sides : par[p].pc = "asked"}) = 1

\* C14: when the conversation held prior messages, the prompt of generate
\* begins with the last min(6, n) of them, in their order.
GeneratePrependsPriorMessages ==
    (/\ sent.op = "send_message"
     /\ sent.status # 404
     /\ Len(sent.prior) >= 1
     /\ Len(sent.state.calls) >= 1) =>
        sent.state.calls[1].history
            = [i \in 1..Len(LastMessages(sent.prior)) |->
                  LastMessages(sent.prior)[i].content]

\* C15: a query under a thread id that an earlier query ran under finds the
\* checkpoint of that query in its engine's MemorySaver.
EarlierCheckpointIsPresent ==
    /\ qa.earlier => qa.checkpoint
    /\ sent.state.earlier => sent.state.checkpoint

(***************************************************************************)
(* The loader's contract.                                                  *)
(***************************************************************************)

\* The tables of a file that are provider sections.
LoadedSections(file) ==
    {file.sections[i] : i \in {j \in 1..Len(file.sections) :
                                  file.sections[j].name \notin ReservedSections}}

RaisingReloadLeavesLoaderAlone ==
    /\ [][(/\ loader' # loader
            /\ loader'.call.op = "reload"
            /\ loader'.call.raised)
              => /\ loader'.providers = loader.providers
                 /\ loader'.default = loader.default]_vars
    /\ [](\/ loader.default = NoDefault
          \/ \E name \in DOMAIN loader.providers :
                loader.default = loader.providers[name]
          \/ loader.default = ProviderConfig(loader.source.default.provider,
                                             loader.source.default.model, ""))

Shown(state, with_ids) ==
    [use_agent_mode |-> state.use_agent_mode,
     context |-> state.context,
     sources |-> [i \in 1..Len(state.documents) |->
                    [source |-> Sources(state.documents)[i].source,
                     content |-> Sources(state.documents)[i].content,
                     similarity |-> Sources(state.documents)[i].similarity,
                     id |-> IF with_ids THEN Sources(state.documents)[i].id
                            ELSE NULL]]]

\* What query a can show when it runs alone on the table as it was when it
\* began.
AloneShown(with_ids) ==
    LET begun == [IdleQuery EXCEPT !.pc = "retrieve",
                                   !.user_id = par.a.user_id,
                                   !.conversation_id = par.a.conversation_id,
                                   !.question = par.a.question]
    IN  {Shown(out.state, with_ids) :
            out \in {o \in retrieve_node(begun, par.start.documents,
                                         par.start.nextId, files) :
                        o.state.pc # "failed"}}

\* C18 (as the code has it): whatever queries of other scopes do beside it,
\* a query's mode, context and sources (names, texts, similarities, order)
\* are among those it can have when it runs alone; the record ids of the
\* sources are too when no other query has written a row since it began.
QueriesOfOtherScopesDoNotInterfere ==
    par.a.pc = "retrieved" =>
        /\ Shown(par.a, FALSE) \in AloneShown(FALSE)
        /\ (\A r \in documents \ par.start.documents : r.id \in par.a.indexed)
              => Shown(par.a, TRUE) \in AloneShown(TRUE)

\* Query a searched its own scope while a query of another scope of the same
\* user wrote its rows between a's.
SearchedBesideIndexing ==
    /\ par.a.pc = "retrieved"
    /\ par.a.failure = NoFailure
    /\ Len(par.a.documents) > 0
    /\ par.b.user_id = par.a.user_id
    /\ \E r \in documents \ par.start.documents :
          /\ r.id \notin par.a.indexed
          /\ \E x, y \in par.a.indexed : x < r.id /\ r.id < y

\* C23: within one retrieve call the similarity search is issued only when
\* add_texts of that call has returned: every chunk of the call is then a
\* committed row of the engine's scope.  When add_texts (or the embedder)
\* failed, no search is issued for the call: the node ends with the first
\* chunks themselves, never with rows found by a search.
SearchOnlyAfterAddTextsReturned ==
    \A p \in Sides :
        LET state == par[p]
            ranked == \E i \in 1..Len(state.documents) :
                         state.documents[i].metadata.similarity # <<>>
        IN  /\ state.pc = "search" =>
                 /\ state.failure = NoFailure
                 /\ Cardinality(state.indexed) = Len(state.chunks)
                 /\ \A i \in 1..Len(state.chunks) :
                       \E r \in documents :
                          /\ r.id \in state.indexed
                          /\ r.content = state.chunks[i].page_content
                          /\ r.embedding # NULL
                          /\ r.user_id = state.user_id
                          /\ r.conversation_id = state.conversation_id
            /\ (state.pc = "retrieved" /\ ranked) =>
                 /\ state.failure = NoFailure
                 /\ Cardinality(state.indexed) = Len(state.chunks)
            /\ (state.pc = "retrieved"
                    /\ state.failure.kind \in {"ctor", "embed", "commit"}) =>
                 /\ ~ranked
                 /\ Cardinality(state.indexed) < Len(state.chunks)
                 /\ state.documents
                       = SubSeq(state.chunks, 1, Min(10, Len(state.chunks)))

\* Query a is about to search with both its chunks committed, beside a query
\* whose add_texts failed at its second text and which ended without a
\* search.
SearchPendingBesideFailedAdd ==
    /\ par.a.pc = "search"
    /\ Cardinality(par.a.indexed) = 2
    /\ par.b.pc = "retrieved"
    /\ par.b.failure = [kind |-> "commit", at |-> 2]
    /\ Cardinality(par.b.indexed) = 1
    /\ par.b.documents = par.b.chunks

\* C18 (as stated): a query's mode, sources (record ids and all) and
\* context are among those it can have when it runs alone.
QueryShowsWhatItShowsAlone ==
    par.a.pc = "retrieved" => Shown(par.a, TRUE) \in AloneShown(TRUE)

(***************************************************************************)
(* The vector store's contract.                                            *)
(***************************************************************************)

\* C1: after any sequence of add_texts calls under arbitrary scopes, a
\* similarity search by a store of scope (user, conversation or none) returns
\* only records that were inserted under exactly that scope: never one of
\* another user, of another conversation, or from the other side of the
\* boundary between a conversation and none.
SearchStaysInScope ==
    vs.op = "similarity_search" =>
        \A i \in 1..Len(vs.result) :
            \E r \in documents :
                /\ r.id = vs.result[i].metadata.id
                /\ r.content = vs.result[i].page_content
                /\ r.embedding # NULL
                /\ r.user_id = vs.store.user_id
                /\ r.conversation_id = vs.store.conversation_id

\* A search that found a record, was asked for more than it found, and ran
\* while the same user had an embedded record on the other side of the boundary
\* between a conversation and none.
SearchBesideOtherScopes ==
    /\ vs.op = "similarity_search"
    /\ ~vs.raised
    /\ Len(vs.result) >= 1
    /\ Len(vs.result) < vs.k
    /\ \E r \in documents :
         /\ r.embedding # NULL
         /\ r.user_id = vs.store.user_id
         /\ (r.conversation_id = NULL) # (vs.store.conversation_id = NULL)

\* C2: a query run under scope (user, conversation) never loads, indexes or
\* returns as a source any content of a document uploaded to another
\* conversation or by another user, and the documents it loads all carry the
\* query's conversation id (none when the query has none).
QueryStaysInScope ==
    qa.pc = "retrieved" =>
        LET own(text) == \A j \in 1..Len(text) :
                             /\ text[j].owner = qa.user_id
                             /\ text[j].conv = qa.conversation_id
        IN  /\ \A i \in 1..Len(qa.loaded) :
                 /\ own(qa.loaded[i].page_content)
                 /\ qa.loaded[i].metadata.conversation_id = qa.conversation_id
            /\ \A r \in documents : r.id \in qa.indexed => own(r.content)
            /\ \A i \in 1..Len(qa.documents) : own(qa.documents[i].page_content)

\* C3: when no document is stored under the query's scope, retrieve sets agent
\* mode with an empty context and no sources, whatever other scopes or the
\* shared upload directory hold.
EmptyScopeIsAgentMode ==
    (qa.pc = "retrieved" /\ qa.scope_ids = {}) =>
        /\ qa.use_agent_mode
        /\ qa.context = <<>>
        /\ qa.documents = <<>>

\* C4: a query whose document name matches no document of its scope ends as a
\* query on an empty scope does: agent mode, empty context, no sources and no
\* error, even when the scope holds other documents.
UnmatchedNameIsAgentMode ==
    (qa.pc \in {"retrieved", "failed"} /\ qa.failure.kind # "load"
        /\ Len(qa.document_name) > 0 /\ qa.named_ids = {}) =>
        /\ qa.pc = "retrieved"
        /\ qa.use_agent_mode
        /\ qa.context = <<>>
        /\ qa.documents = <<>>

\* C5: when similarity_search raises during retrieve and at least one chunk
\* exists, retrieve still ends out of agent mode with a non-empty context
\* built from the first min(10, number of chunks) chunks in document order.
SearchFailureFallsBack ==
    (qa.pc \in {"retrieved", "failed"} /\ qa.failure.kind = "search"
        /\ Len(qa.chunks) >= 1) =>
        /\ qa.pc = "retrieved"
        /\ ~qa.use_agent_mode
        /\ qa.context # <<>>
        /\ qa.documents = [i \in 1..Min(10, Len(qa.chunks)) |-> qa.chunks[i]]
        /\ qa.context = Join([i \in 1..Min(10, Len(qa.chunks)) |->
                                 qa.chunks[i].page_content])

\* A retrieve whose search raised with more chunks at hand than the fallback
\* takes.
SearchFailedOnLongDocument ==
    /\ qa.pc = "retrieved"
    /\ qa.failure.kind = "search"
    /\ Len(qa.chunks) > 10
    /\ Len(qa.documents) = 10

\* C6: no failure of the embedding provider or of the vector store (building
\* the embedder, add_texts, similarity_search) during retrieve makes the query
\* fail: retrieve completes and hands a state to generate.
ProviderFailuresAreAbsorbed ==
    qa.failure.kind \in {"ctor", "embed", "commit", "search"} =>
        /\ qa.pc = "retrieved"
        /\ ~qa.use_agent_mode
        /\ Len(qa.documents) = Min(10, Len(qa.chunks))

\* A retrieve that completed although the store failed in the middle of the
\* batch, leaving part of it indexed.
StoreFailedMidBatch ==
    /\ qa.pc = "retrieved"
    /\ qa.failure.kind = "commit"
    /\ qa.failure.at > 1
    /\ Cardinality({r \in documents : r.embedding # NULL}) = qa.failure.at - 1

\* C7: when add_texts fails for a batch (the embedder, or the store at any text
\* of the batch), the table afterwards holds no record of that batch.
FailedBatchStoresNothing ==
    (vs.op = "add_texts" /\ vs.raised) =>
        \A r \in documents : ~(vs.first <= r.id /\ r.id < vs.first + vs.n)

\* C8: a similarity search returns its results by descending similarity, equal
\* similarities by ascending record id, so the sequence is determined by the
\* query and the table.
SearchOrderIsDetermined ==
    vs.op = "similarity_search" =>
        \A i, j \in 1..Len(vs.result) :
            i < j =>
                LET a == vs.result[i].metadata
                    b == vs.result[j].metadata
                IN  \/ a.similarity[1] > b.similarity[1]
                    \/ a.similarity[1] = b.similarity[1] /\ a.id < b.id

\* C9: a similarity search for k results by a store whose scope holds n
\* records returns exactly min(k, n) of them (none when n = 0).
SearchReturnsMinOfKAndScope ==
    (vs.op = "similarity_search" /\ ~vs.raised) =>
        Len(vs.result) =
            Min(vs.k, Cardinality({r \in documents :
                                     /\ r.embedding # NULL
                                     /\ r.user_id = vs.store.user_id
                                     /\ r.conversation_id = vs.store.conversation_id}))

\* C26: delete called on the store of one scope removes no record stored
\* under another scope, whatever ids it is given.
DeleteStaysInScope ==
    vs.op = "delete" =>
        \A r \in vs.before \ documents :
            /\ r.user_id = vs.store.user_id
            /\ r.conversation_id = vs.store.conversation_id

\* C10: delete removes exactly the records whose ids are listed and leaves the
\* others as they were; ids of no record, an empty list and a missing list
\* change nothing; and no call of delete raises.
DeleteRemovesExactlyListed ==
    vs.op = "delete" =>
        /\ ~vs.raised
        /\ documents =
             {r \in vs.before : ~(vs.present /\ Str(r.id) \in Range(vs.ids))}

====
